---- MODULE Spec2Model ----
(***************************************************************************)
(* A model of serial-requests' PortManager (src/src/PortManager.js): the   *)
(* promise-chained request queue, the quiescence timer, the identification *)
(* handshake, the status machine and the reconnection loop of one port.    *)
(*                                                                         *)
(* One step of the model is one turn of the JavaScript event loop: a       *)
(* macrotask (a call made by the user, a write callback, a timer, an event *)
(* of the transport, the enumeration callback) together with every promise *)
(* reaction (microtask) it triggers.                                       *)
(***************************************************************************)
EXTENDS Integers, Sequences, FiniteSets, TLC

\* ------------------------------------------------------------- bounds
\* options.maxQLength of the modelled port (the default is 30).
maxQLength == 1
\* Chunks of one kind (id lines, incomplete lines) the receive buffer holds
\* at most.
MaxBuf == 1
\* Reconnection attempts and live transport handles, taken together.
MaxPorts == 2
\* Write callbacks that report an error over a run (see WriteErrors).
MaxWriteErrors == 1

\* The devices that may sit behind the port. A device sends its id line (a
\* chunk named as the device) or a chunk "x" that is no complete line.
Devices == {"A", "B"}
Junk == "x"

\* The environment of a run: whether the user also submits the probe command
\* itself, whether devices send chunks that are no complete line, whether an
\* open handle reports errors, and whether the events emitted are recorded.
Env(userProbe, junk, openErrors, events) ==
    [userProbe |-> userProbe, junk |-> junk, openErrors |-> openErrors,
     events |-> events]

\* statusCode before the first _updateStatus: the constructor leaves it
\* undefined, which differs from every code.
NoStatus == 8
\* this.deviceId before the first identification (undefined, falsy).
NoId == ""

VARIABLES
    queue,        \* the requests admitted and not settled, in admission order
    zombies,      \* timers of doTimeout that belong to settled requests
    queueLength,  \* this.queueLength
    statusCode,   \* this.statusCode
    ready,        \* this.ready
    deviceId,     \* this.deviceId
    buffer,       \* this.buffer
    initTimeout,  \* TRUE while the timer of _scheduleInit is pending
    ports,        \* the SerialPort handles that may still emit, oldest first
    cur,          \* this.port: "undef", "last" (of ports) or "dead"
    listing,      \* SerialPort.list calls of _hasPort not yet answered
    tryTimers,    \* timers of _tryLater pending
    check,        \* whether options.checkResponse is configured
    env,          \* what the environment of the run may do (see Env)
    emitted,      \* the events emitted by the last step, in order
    settled,      \* the requests settled by the last step, in order
    admitted,     \* how many requests the last step admitted
    dm            \* the DeviceManager (see DeviceManager0)

\* The variables of the port.
portVars == <<queue, zombies, queueLength, statusCode, ready, deviceId, buffer,
              initTimeout, ports, cur, listing, tryTimers, check, env, emitted,
              settled, admitted>>

vars == <<portVars, dm>>

\* The state as one record, so that a handler and the promise reactions it
\* triggers compose as functions. Its field res is the outcome of the last
\* call of addRequest ("none" before any).
S ==
    [queue |-> queue, zombies |-> zombies, queueLength |-> queueLength,
     statusCode |-> statusCode, ready |-> ready, deviceId |-> deviceId,
     buffer |-> buffer, initTimeout |-> initTimeout, ports |-> ports,
     cur |-> cur, listing |-> listing, tryTimers |-> tryTimers,
     check |-> check,
     emitted |-> <<>>, settled |-> <<>>, admitted |-> 0, res |-> "none"]

\* ------------------------------------------------------- DeviceManager
\* The port paths SerialPort.list may report.
Paths == {"P", "Q", "R"}
\* undefined, as an entry of devices.
NoPath == ""
\* What devices[id] evaluates to for an id that names a property of
\* Array.prototype: devices is an array, the value is a function.
Inherited == "Array.prototype"
\* An id with which addRequest may be called and that names such a property.
ProtoKey == "constructor"
\* The ids addRequest of the DeviceManager may be called with.
Ids == Devices \cup {ProtoKey}
\* An identity a device may report that names the own property of every
\* array that cannot be assigned an object nor deleted.
LengthKey == "length"
\* The identities the PortManagers of a DeviceManager may find.
Identities == Devices \cup {LengthKey}
\* The identities the devices plugged into path p report: the device that
\* reports LengthKey is plugged into Q only.
IdentitiesAt(p) == IF p = "Q" THEN Identities ELSE Devices
\* Calls of DeviceManager.addRequest waiting for their device at a time.
MaxRequests == 2

\* A DeviceManager as constructed. serialQManagers[p] is the PortManager of
\* path p as the DeviceManager sees it: whether it exists, its deviceId and
\* where it stands ("init": opening or identifying, "ready", "failed":
\* identification failed and the retry timer is pending, "disconnected",
\* "closed"). requests are the calls of _getSerialQ that
\* found no device, each in phase "refresh" (waiting for the enumeration),
\* "wait" (listening, timer armed) or "matched" (resolved, still listening
\* until the timer expires). refreshPromise tells the promise of one
\* enumeration pass from that of the pass before it (0 or 1, in turn);
\* enumerating counts the calls of SerialPort.list not yet answered. micro
\* are the reactions of resolved promises that run at the end of the step;
\* emitted and settled are the events emitted and the calls of addRequest
\* settled by the last step. unplugged are the registered devices whose
\* unplugging the transport has reported and that have not been plugged in
\* since (kept where a PortManager is modelled in full).
DeviceManager0 ==
    [devices |-> [d \in Identities |-> NoPath],
     serialQManagers |->
         [p \in Paths |-> [made |-> FALSE, deviceId |-> NoId, st |-> "none"]],
     haveConnectedIds |-> {},
     refreshing |-> FALSE,
     refreshPromise |-> 0,
     enumerating |-> 0,
     requests |-> <<>>,
     micro |-> <<>>,
     emitted |-> <<>>,
     settled |-> <<>>,
     unplugged |-> {}]

\* that.devices[id].
devicesGet(m, id) ==
    IF id \in Identities /\ m.devices[id] # NoPath THEN m.devices[id]
    ELSE IF id = ProtoKey THEN Inherited
    ELSE NoPath

\* PortManager.addRequest of a command other than the probe, as far as the
\* DeviceManager is concerned: refused unless the port is ready.
portAddRequest(pm) == IF pm.st = "ready" THEN "admitted" ELSE "NotReady"

\* The reaction s => s.addRequest(cmd, options) of addRequest, for the value
\* s the promise of _getSerialQ resolved with.
delegate(m, id, s) ==
    [id |-> id, to |-> s,
     fut |-> IF s = Inherited THEN "TypeError"
             ELSE portAddRequest(m.serialQManagers[s])]

\* The reactions of the step, run when its handler has returned.
drain(m) ==
    [m EXCEPT !.settled = @ \o [i \in 1..Len(m.micro) |->
                                   delegate(m, m.micro[i].id, m.micro[i].to)],
              !.micro = <<>>]

\* emit of the DeviceManager: the listeners deviceReady of the calls that
\* wait are run for new and connect.
dmEmit(m, name, id) ==
    LET hit(i) == /\ name \in {"new", "connect"}
                  /\ m.requests[i].ph = "wait"
                  /\ m.requests[i].id = id
        hits == SelectSeq([i \in 1..Len(m.requests) |-> i], hit)
    IN [m EXCEPT !.emitted = Append(@, [e |-> name, id |-> id]),
                 !.requests = [i \in 1..Len(m.requests) |->
                                  IF hit(i) THEN [m.requests[i] EXCEPT !.ph = "matched"]
                                  ELSE m.requests[i]],
                 !.micro = @ \o [k \in 1..Len(hits) |->
                                    [id |-> id, to |-> devicesGet(m, id)]]]

\* this.devices[id] = ... and delete this.devices[id] throw for this id:
\* devices is an array and the file is in strict mode.
devicesThrows(id) == id = LengthKey

\* _deviceConnected, for an id whose assignment does not throw.
deviceConnected(m, id, p) ==
    dmEmit([m EXCEPT !.devices[id] = p,
                     !.haveConnectedIds = @ \cup {id}],
           IF id \in m.haveConnectedIds THEN "connect" ELSE "new", id)

\* The listener of disconnect of a PortManager, which emits nothing when its
\* delete throws.
onDisconnect(m, id) ==
    IF devicesThrows(id) THEN m
    ELSE dmEmit(IF id = NoId THEN m ELSE [m EXCEPT !.devices[id] = NoPath],
                "disconnect", id)

\* The path of the port modelled in full.
OwnPath == "P"

\* The listeners the DeviceManager has attached to the PortManager of
\* OwnPath, run for one event it emits.
listener(m, ev) ==
    IF ev.e \in {"ready", "reinitialized", "idchange"}
    THEN deviceConnected(m, ev.id, OwnPath)
    ELSE IF ev.e = "disconnect" THEN onDisconnect(m, ev.id)
    ELSE m

RECURSIVE listeners(_, _)
\* The listeners run for the events es, in the order of emission.
listeners(m, es) ==
    IF es = <<>> THEN m ELSE listeners(listener(m, Head(es)), Tail(es))

\* The PortManager in state t as the DeviceManager sees it.
seen(t) ==
    [made |-> TRUE, deviceId |-> t.deviceId,
     st |-> CASE t.statusCode = 2 -> "ready"
              [] t.statusCode = 7 -> "failed"
              [] t.statusCode = 3 -> "disconnected"
              [] t.statusCode \in {NoStatus, 0, 1} -> "init"
              [] OTHER -> "closed"]

\* The devices whose unplugging the step to t reports: those behind a handle
\* that turns disconnected while the device is registered as the one the
\* PortManager has identified.
unplugs(m, t) ==
    IF Len(t.ports) # Len(ports) THEN {}
    ELSE {t.ports[h].dev : h \in {i \in 1..Len(ports) :
              /\ ports[i].st # "disc" /\ t.ports[i].st = "disc"
              /\ m.devices[ports[i].dev] = OwnPath
              /\ deviceId = ports[i].dev}}

\* The devices the step to t plugs in: the one behind a new handle.
plugs(t) ==
    IF Len(t.ports) > Len(ports) THEN {t.ports[Len(t.ports)].dev} ELSE {}

\* The DeviceManager m after a step of the PortManager of OwnPath that leads
\* to t and emits t.emitted.
manage(m, t) ==
    LET m1 == [m EXCEPT !.emitted = <<>>, !.settled = <<>>,
                        !.unplugged = (@ \cup unplugs(m, t)) \ plugs(t)]
        m2 == listeners(m1, t.emitted)
    IN drain([m2 EXCEPT !.serialQManagers[OwnPath] = seen(t)])

Commit(t) ==
    /\ queue' = t.queue
    /\ zombies' = t.zombies
    /\ queueLength' = t.queueLength
    /\ statusCode' = t.statusCode
    /\ ready' = t.ready
    /\ deviceId' = t.deviceId
    /\ buffer' = t.buffer
    /\ initTimeout' = t.initTimeout
    /\ ports' = t.ports
    /\ cur' = t.cur
    /\ listing' = t.listing
    /\ tryTimers' = t.tryTimers
    /\ check' = t.check
    /\ env' = env
    /\ emitted' = IF env.events THEN t.emitted ELSE <<>>
    /\ settled' = t.settled
    /\ admitted' = t.admitted
    /\ dm' = IF dm.serialQManagers[OwnPath].made THEN manage(dm, t) ELSE dm

\* s without its i-th element.
Remove(s, i) == SubSeq(s, 1, i - 1) \o SubSeq(s, i + 1, Len(s))

\* An emitted event: its name, the status code (statusChanged) or the id.
Ev(name, code, id) == [e |-> name, code |-> code, id |-> id]

emit(s, name, id) == [s EXCEPT !.emitted = Append(@, Ev(name, NoStatus, id))]

\* _updateStatus emitting statusChanged at every call.
updateStatus_level(s, code) ==
    [s EXCEPT !.statusCode = code,
              !.ready = (code = 2),
              !.emitted = Append(@, Ev("statusChanged", code, NoId))]

\* _updateStatus with the flag inverted: ready in every status but 2.
updateStatus_inverted(s, code) ==
    [s EXCEPT !.statusCode = code,
              !.ready = (code # 2),
              !.emitted = IF s.statusCode # code
                          THEN Append(@, Ev("statusChanged", code, NoId))
                          ELSE @]

\* _updateStatus(code): edge-triggered statusChanged, ready <=> code = 2.
updateStatus(s, code) ==
    [s EXCEPT !.statusCode = code,
              !.ready = (code = 2),
              !.emitted = IF s.statusCode # code
                          THEN Append(@, Ev("statusChanged", code, NoId))
                          ELSE @]

\* options.getIdResponseParser as the repository's examples configure it:
\* the id of a buffer that is exactly one id line, "" (it throws) otherwise.
getIdResponseParser(buf) ==
    IF Len(buf) = 1 /\ buf[1] \in Devices THEN buf[1] ELSE NoId

\* options.checkResponse as the examples configure it (buffer.endsWith('\n')):
\* the buffer ends with a complete line.
checkResponse(buf) == buf # <<>> /\ buf[Len(buf)] # Junk

\* _scheduleInit: clearTimeout of a pending timer, then one new timer.
scheduleInit(s) == [s EXCEPT !.initTimeout = TRUE]

\* A catch of _serialPortInit that forgets the identity.
initCatch_forgetting(s) ==
    scheduleInit(updateStatus([s EXCEPT !.deviceId = NoId], 7))

\* A catch of _serialPortInit that schedules no further attempt.
initCatch_unscheduled(s) == updateStatus(s, 7)

\* The catch of _serialPortInit.
initCatch(s) == scheduleInit(updateStatus(s, 7))

\* The then of _serialPortInit announcing every identification with 'ready'.
initThen_ready(s, response) ==
    IF response = <<>>
    THEN [s EXCEPT !.res = "throw"]
    ELSE LET id == getIdResponseParser(response) IN
         IF id = NoId
         THEN [s EXCEPT !.res = "throw"]
         ELSE emit(updateStatus([s EXCEPT !.deviceId = id], 2), "ready", id)

\* The then of _serialPortInit, given the probe's response. The result's
\* field res is "throw" when the handler threw.
initThen(s, response) ==
    IF response = <<>>
    THEN [s EXCEPT !.res = "throw"]
    ELSE LET id == getIdResponseParser(response) IN
         IF id = NoId
         THEN [s EXCEPT !.res = "throw"]
         ELSE IF s.deviceId # NoId /\ s.deviceId # id
         THEN updateStatus(emit([s EXCEPT !.deviceId = id], "idchange", id), 2)
         ELSE IF s.deviceId = NoId
         THEN emit(updateStatus([s EXCEPT !.deviceId = id], 2), "ready", id)
         ELSE emit(updateStatus([s EXCEPT !.deviceId = id], 2), "reinitialized", id)

\* What is kept of a request for the step in which it settles: how it ended,
\* where in the queue it was, whether it was written, by how much settling
\* it has lowered queueLength.
Outcome(q, pos, fut, qdec) ==
    [probe |-> q.probe, init |-> q.init, callId |-> q.callId, fut |-> fut,
     pos |-> pos, written |-> q.st # "queued", qdec |-> qdec, stale |-> q.stale,
     grew |-> q.grew]

\* The promise of queue[r] settles: the request leaves the queue.
settle(s, r, fut, qdec) ==
    [s EXCEPT !.queue = Remove(@, r),
              !.settled = Append(@, Outcome(s.queue[r], r, fut, qdec))]

\* _resolve and _reject of _appendRequest for the pending request queue[r].
resolve_(s, r) ==
    LET t == [s EXCEPT !.queueLength = @ - 1] IN
    settle(t, r, "resolved", s.queueLength - t.queueLength)

reject_(s, r, why) ==
    LET t == [s EXCEPT !.queueLength = @ - 1] IN
    settle(t, r, why, s.queueLength - t.queueLength)

\* this.port.write: the handle written to, 0 when it is not open (the
\* callback will report an error).
writeHandle(s) ==
    IF s.cur = "last" /\ s.ports[Len(s.ports)].st = "open" THEN Len(s.ports) ELSE 0

RECURSIVE start(_, _), afterSettle(_, _, _, _)

\* The function _appendRequest returns, without its identity check.
start_unchecked(s, r) ==
    LET q == s.queue[r] IN
    IF s.cur = "undef"
    THEN afterSettle(settle(s, r, "throw", 0), r, q, <<>>)
    ELSE [s EXCEPT !.queue[r].st = "writing", !.queue[r].wh = writeHandle(s),
                   !.queue[r].stale = Len(s.buffer)]

\* The function _appendRequest returns, run for queue[r] when the previous
\* promise of the chain has settled: the identity check, then port.write.
start(s, r) ==
    LET q == s.queue[r] IN
    IF ~q.probe /\ q.callId # s.deviceId
    THEN afterSettle(reject_(s, r, "invalid id"), r, q, <<>>)
    ELSE IF s.cur = "undef"
    THEN \* this.port is undefined: the executor throws, the promise rejects
         afterSettle(settle(s, r, "throw", 0), r, q, <<>>)
    ELSE [s EXCEPT !.queue[r].st = "writing", !.queue[r].wh = writeHandle(s),
                   !.queue[r].stale = Len(s.buffer)]

\* The promise reactions that run once request q, which was queue[r], has
\* settled: the then of _serialPortInit (registered first), the next function
\* of the chain, the catch of _serialPortInit (one reaction further down).
afterSettle(s, r, q, response) ==
    LET ok == s.settled[Len(s.settled)].fut = "resolved"
        s1 == IF q.init /\ ok THEN initThen(s, response) ELSE s
        threw == s1.res = "throw"
        s2 == [s1 EXCEPT !.res = s.res]
        s3 == IF r <= Len(s2.queue) /\ s2.queue[r].st = "queued"
              THEN start(s2, r)
              ELSE s2
    IN IF q.init /\ (~ok \/ threw) THEN initCatch(s3) ELSE s3

\* A request as admitted. Its field moved says, until the write of the
\* request is acknowledged, that this.port was replaced by a new handle
\* while the request was waiting to be written. Its field stale is the
\* length this.buffer had when the request was written, its field grew says
\* that data has arrived since the timer of the request was last armed.
Request(probe, init, id) ==
    [probe |-> probe, init |-> init, callId |-> id, st |-> "queued",
     bufferSize |-> 0, wh |-> 0, moved |-> FALSE, stale |-> 0, grew |-> FALSE]

\* addRequest with the admission test >= in place of >.
addRequest_ge(s, probe, init) ==
    IF ~s.ready /\ ~probe
    THEN [s EXCEPT !.res = "NotReady"]
    ELSE IF s.queueLength >= maxQLength
    THEN [s EXCEPT !.res = "QueueFull"]
    ELSE LET t == [s EXCEPT !.queueLength = @ + 1,
                            !.queue = Append(@, Request(probe, init, s.deviceId)),
                            !.admitted = @ + 1,
                            !.res = "admitted"]
         IN IF s.queue = <<>> THEN start(t, 1) ELSE t

\* addRequest with the admission test off by one more.
addRequest_lax(s, probe, init) ==
    IF ~s.ready /\ ~probe
    THEN [s EXCEPT !.res = "NotReady"]
    ELSE IF s.queueLength > maxQLength + 1
    THEN [s EXCEPT !.res = "QueueFull"]
    ELSE LET t == [s EXCEPT !.queueLength = @ + 1,
                            !.queue = Append(@, Request(probe, init, s.deviceId)),
                            !.admitted = @ + 1,
                            !.res = "admitted"]
         IN IF s.queue = <<>> THEN start(t, 1) ELSE t

\* addRequest that does not chain on lastRequest: the new request starts at
\* once, whatever is pending.
addRequest_unchained(s, probe, init) ==
    IF ~s.ready /\ ~probe
    THEN [s EXCEPT !.res = "NotReady"]
    ELSE IF s.queueLength > maxQLength
    THEN [s EXCEPT !.res = "QueueFull"]
    ELSE LET t == [s EXCEPT !.queueLength = @ + 1,
                            !.queue = Append(@, Request(probe, init, s.deviceId)),
                            !.admitted = @ + 1,
                            !.res = "admitted"]
         IN start(t, Len(t.queue))

\* An addRequest whose Ready gate does not exempt the probe.
addRequest_gated(s, probe, init) ==
    IF ~s.ready
    THEN [s EXCEPT !.res = "NotReady"]
    ELSE IF s.queueLength > maxQLength
    THEN [s EXCEPT !.res = "QueueFull"]
    ELSE LET t == [s EXCEPT !.queueLength = @ + 1,
                            !.queue = Append(@, Request(probe, init, s.deviceId)),
                            !.admitted = @ + 1,
                            !.res = "admitted"]
         IN IF s.queue = <<>> THEN start(t, 1) ELSE t

\* addRequest(cmd): probe says whether cmd is options.getIdCommand, init
\* whether the call is the one of _serialPortInit. lastRequest has settled
\* when no request is pending, and the new request then starts at once.
addRequest(s, probe, init) ==
    IF ~s.ready /\ ~probe
    THEN [s EXCEPT !.res = "NotReady"]
    ELSE IF s.queueLength > maxQLength
    THEN [s EXCEPT !.res = "QueueFull"]
    ELSE LET t == [s EXCEPT !.queueLength = @ + 1,
                            !.queue = Append(@, Request(probe, init, s.deviceId)),
                            !.admitted = @ + 1,
                            !.res = "admitted"]
         IN IF s.queue = <<>> THEN start(t, 1) ELSE t

\* _serialPortInit.
serialPortInit(s) ==
    LET t == addRequest(updateStatus(s, 1), TRUE, TRUE) IN
    IF t.res = "admitted" THEN t ELSE initCatch(t)

\* _handleWriteError: only while ready; close() of the handle this.port.
handleWriteError(s) ==
    IF ~s.ready
    THEN s
    ELSE LET t == updateStatus(s, 6) IN
         IF writeHandle(s) # 0
         THEN [t EXCEPT !.ports[Len(s.ports)].st = "closing"]
         ELSE t

\* A write callback that hands the transport to the next request as soon as
\* the write is acknowledged, while the response is still awaited.
writeCallback_pipelined(s, r, err) ==
    IF err
    THEN LET s1 == reject_(handleWriteError(s), r, "write")
             s2 == [s1 EXCEPT !.zombies = Append(@, Len(s.buffer))]
         IN afterSettle(s2, r, s.queue[r], <<>>)
    ELSE LET t == [s EXCEPT !.queue[r].st = "timing",
                            !.queue[r].bufferSize = Len(s.buffer),
                            !.queue[r].moved = FALSE]
         IN IF r < Len(t.queue) /\ t.queue[r + 1].st = "queued"
            THEN start(t, r + 1)
            ELSE t

\* A write callback that, on an error, neither rejects the request nor arms
\* its timer.
writeCallback_silent(s, r, err) ==
    IF err
    THEN [handleWriteError(s) EXCEPT !.queue[r].st = "lost"]
    ELSE [s EXCEPT !.queue[r].st = "timing",
                   !.queue[r].bufferSize = Len(s.buffer),
                   !.queue[r].moved = FALSE]

\* The callback of port.write for queue[r], then doTimeout(true). After an
\* error the request is rejected and its timer is armed all the same.
writeCallback(s, r, err) ==
    IF err
    THEN LET s1 == reject_(handleWriteError(s), r, "write")
             s2 == [s1 EXCEPT !.zombies = Append(@, Len(s.buffer))]
         IN afterSettle(s2, r, s.queue[r], <<>>)
    ELSE [s EXCEPT !.queue[r].st = "timing",
                   !.queue[r].bufferSize = Len(s.buffer),
                   !.queue[r].moved = FALSE]

\* doTimeout() at the expiry of the timer of the pending request queue[r].
doTimeout(s, r) ==
    LET q == s.queue[r] IN
    IF q.bufferSize < Len(s.buffer)
    THEN [s EXCEPT !.queue[r].bufferSize = Len(s.buffer),
                   !.queue[r].grew = FALSE]
    ELSE IF s.check /\ ~checkResponse(s.buffer)
    THEN afterSettle(reject_(s, r, "validation"), r, q, <<>>)
    ELSE afterSettle([resolve_(s, r) EXCEPT !.buffer = <<>>], r, q, s.buffer)

\* A leftover timer whose _resolve or _reject settles the promise once more.
zombieTimeout_resettling(s, z) ==
    IF s.zombies[z] < Len(s.buffer)
    THEN [s EXCEPT !.zombies[z] = Len(s.buffer)]
    ELSE [s EXCEPT !.zombies = Remove(@, z), !.queueLength = @ - 1,
                   !.settled = Append(@, Outcome(Request(FALSE, FALSE, NoId), 1,
                                                 "resolved", 1))]

\* doTimeout() at the expiry of the z-th timer of a settled request:
\* _resolve and _reject decrement queueLength again.
zombieTimeout(s, z) ==
    IF s.zombies[z] < Len(s.buffer)
    THEN [s EXCEPT !.zombies[z] = Len(s.buffer)]
    ELSE IF s.check /\ ~checkResponse(s.buffer)
    THEN [s EXCEPT !.zombies = Remove(@, z), !.queueLength = @ - 1]
    ELSE [s EXCEPT !.zombies = Remove(@, z), !.queueLength = @ - 1,
                   !.buffer = <<>>]

\* _reconnectionAttempt: one more SerialPort.list in flight.
reconnectionAttempt(s) == [s EXCEPT !.listing = @ + 1]

\* A _tryLater that sets no timer.
tryLater_idle(s) == s

\* _tryLater.
tryLater(s) == [s EXCEPT !.tryTimers = @ + 1]

Handle(d) == [st |-> "opening", erred |-> FALSE, dev |-> d]

\* this.port = new SerialPort(...) for a path behind which device d sits.
newPort(s, d) ==
    [s EXCEPT !.ports = Append(@, Handle(d)),
              !.cur = "last",
              !.queue = [i \in 1..Len(s.queue) |->
                            [s.queue[i] EXCEPT !.moved = @ \/ s.queue[i].st = "queued"]]]

\* A close that rejects and removes the pending requests.
dropHandle_draining(s, h) ==
    [s EXCEPT !.ports = Remove(@, h),
              !.cur = IF @ = "last" /\ h = Len(s.ports) THEN "dead" ELSE @,
              !.queue = <<>>,
              !.queueLength = 0]

\* Handle h was closed, or its open failed: it emits nothing any more, and
\* the writes it has not acknowledged fail.
dropHandle(s, h) ==
    [s EXCEPT !.ports = Remove(@, h),
              !.cur = IF @ = "last" /\ h = Len(s.ports) THEN "dead" ELSE @,
              !.queue = [i \in 1..Len(s.queue) |->
                            [s.queue[i] EXCEPT !.wh = IF @ = h THEN 0
                                                      ELSE IF @ > h THEN @ - 1
                                                      ELSE @]]]

\* The handler of 'data' for chunk c.
onData(s, c) ==
    [s EXCEPT !.buffer = Append(@, c),
              !.queue = [i \in 1..Len(s.queue) |->
                            [s.queue[i] EXCEPT !.grew = @ \/ s.queue[i].st = "timing"]]]

\* ------------------------------------------------------------ actions
StartPort(e, c) ==
    /\ env = e
    /\ check = c
    /\ queue = <<>>
    /\ zombies = <<>>
    /\ queueLength = 0
    /\ statusCode = NoStatus
    /\ ready = FALSE
    /\ deviceId = NoId
    /\ buffer = <<>>
    /\ initTimeout = FALSE
    /\ ports = <<>>
    /\ cur = "undef"
    /\ listing = 1
    /\ tryTimers = 0
    /\ emitted = <<>>
    /\ settled = <<>>
    /\ admitted = 0

\* A PortManager no DeviceManager listens to.
Start(e, c) == StartPort(e, c) /\ dm = DeviceManager0

\* A port configured with or without checkResponse, the user submitting
\* commands other than the probe.
Init == \E c \in BOOLEAN : Start(Env(FALSE, FALSE, FALSE, FALSE), c)

\* The write errors of the run so far: each leaves a timer behind and, once
\* that has expired, a queueLength one lower than the requests pending.
WriteErrors == Len(zombies) + (Len(queue) - queueLength)

\* The user calls addRequest(cmd).
Submit ==
    \E probe \in (IF env.userProbe THEN BOOLEAN ELSE {FALSE}) :
        \E t \in {addRequest(S, probe, FALSE)} : Commit(t)

\* The callback of the write of queue[r], with or without an error. A write
\* succeeds only on a handle that is open.
WriteCallback ==
    \E r \in 1..Len(queue) :
        /\ queue[r].st = "writing"
        /\ \E err \in BOOLEAN :
               /\ (queue[r].wh = 0 \/ ports[queue[r].wh].st # "open") => err
               /\ err => WriteErrors < MaxWriteErrors
               /\ \E t \in {writeCallback(S, r, err)} : Commit(t)

\* The timer of the pending request queue[r] expires.
Timeout ==
    \E r \in 1..Len(queue) :
        /\ queue[r].st = "timing"
        /\ \E t \in {doTimeout(S, r)} : Commit(t)

\* The timer of a settled request expires.
ZombieTimeout ==
    \E z \in 1..Len(zombies) : \E t \in {zombieTimeout(S, z)} : Commit(t)

\* The handler of 'data': the device behind handle h sends a chunk. The
\* protocol is request/response: a device sends while a command written to
\* it is being served.
Data ==
    \E h \in 1..Len(ports) :
        /\ ports[h].st = "open"
        /\ \E r \in 1..Len(queue) : queue[r].wh = h
        /\ \E c \in (IF env.junk THEN {ports[h].dev, Junk} ELSE {ports[h].dev}) :
               /\ Cardinality({i \in 1..Len(buffer) :
                                   (buffer[i] = Junk) <=> (c = Junk)}) < MaxBuf
               /\ \E t \in {onData(S, c)} : Commit(t)

\* The handler of 'open'.
PortOpen ==
    \E h \in 1..Len(ports) :
        /\ ports[h].st = "opening"
        /\ \E t \in {serialPortInit(emit(updateStatus(
               [S EXCEPT !.ports[h].st = "open"], 0), "open", NoId))} : Commit(t)

\* The handler of 'error': the open of handle h failed, or the open handle h
\* reports an error and stays open.
PortError ==
    \E h \in 1..Len(ports) :
        /\ ports[h].st = "open" =>
               /\ env.openErrors
               /\ ~ports[h].erred
               /\ listing + tryTimers + Len(ports) < MaxPorts
        /\ ports[h].st \in {"opening", "open"}
        /\ \E t \in {tryLater(emit(updateStatus(
               IF ports[h].st = "opening"
               THEN dropHandle(S, h)
               ELSE [S EXCEPT !.ports[h].erred = TRUE], -1), "error", NoId))} : Commit(t)

\* The handler of 'disconnect': the device behind handle h was unplugged.
PortDisconnect ==
    \E h \in 1..Len(ports) :
        /\ ports[h].st = "open"
        /\ \E t \in {emit(updateStatus([S EXCEPT !.ports[h].st = "disc"], 3),
                       "disconnect", deviceId)} : Commit(t)

\* The handler of 'close'.
PortClose ==
    \E h \in 1..Len(ports) :
        /\ ports[h].st \in {"open", "disc", "closing"}
        /\ \E t \in {reconnectionAttempt(emit(updateStatus(dropHandle(S, h), 4),
                                           "close", NoId))} : Commit(t)

\* The callback of SerialPort.list in _hasPort: the path is listed and a new
\* handle is created, with some device behind it (the first device is named
\* "A").
ListFound ==
    /\ listing > 0
    /\ \E d \in (IF cur = "undef" THEN {"A"} ELSE Devices) :
           \E t \in {newPort([S EXCEPT !.listing = @ - 1], d)} : Commit(t)

\* The callback of SerialPort.list in _hasPort: the path is not listed.
ListNotFound ==
    /\ listing > 0
    /\ \E t \in {tryLater(updateStatus([S EXCEPT !.listing = @ - 1], 5))} : Commit(t)

\* A timer of _tryLater expires.
TryLaterTimer ==
    /\ tryTimers > 0
    /\ \E t \in {reconnectionAttempt([S EXCEPT !.tryTimers = @ - 1])} : Commit(t)

\* The timer of _scheduleInit expires.
InitTimer ==
    /\ initTimeout
    /\ \E t \in {serialPortInit([S EXCEPT !.initTimeout = FALSE])} : Commit(t)

Next ==
    \/ Submit
    \/ WriteCallback
    \/ Timeout
    \/ ZombieTimeout
    \/ Data
    \/ PortOpen
    \/ PortError
    \/ PortDisconnect
    \/ PortClose
    \/ ListFound
    \/ ListNotFound
    \/ TryLaterTimer
    \/ InitTimer

Spec == Init /\ [][Next]_vars

\* A port configured with checkResponse whose devices also send chunks that
\* are no complete line.
InitJunk == Start(Env(FALSE, TRUE, FALSE, FALSE), TRUE)

SpecJunk == InitJunk /\ [][Next]_vars

\* A port whose emitted events are recorded.
InitEvents == \E c \in BOOLEAN : Start(Env(FALSE, FALSE, FALSE, TRUE), c)

SpecEvents == InitEvents /\ [][Next]_vars

\* A port its user submits nothing to, whose path stays listed and whose
\* open succeeds: what runs is the identification (_serialPortInit, the
\* probe, the timer of _scheduleInit) and the close of the transport.
NextIdentify ==
    \/ WriteCallback
    \/ Timeout
    \/ ZombieTimeout
    \/ Data
    \/ PortOpen
    \/ PortClose
    \/ ListFound
    \/ InitTimer

\* The identification of such a port, its events recorded; the event loop
\* runs the timer of _scheduleInit once it is due.
SpecIdentify == InitEvents /\ [][NextIdentify]_vars /\ WF_vars(InitTimer)

\* A port its user submits nothing to and whose device never answers: what
\* runs is the reconnection loop (_reconnectionAttempt, _hasPort, _tryLater
\* and the handlers of the transport's events) and the identification
\* attempts it starts, which fail.
NextReconnect ==
    \/ WriteCallback
    \/ Timeout
    \/ ZombieTimeout
    \/ PortOpen
    \/ PortError
    \/ PortDisconnect
    \/ PortClose
    \/ ListFound
    \/ ListNotFound
    \/ TryLaterTimer
    \/ InitTimer

\* Such a port whose open transport may report errors (the handler of
\* 'error' runs while the handle stays open).
InitErrors == \E c \in BOOLEAN : Start(Env(FALSE, FALSE, TRUE, FALSE), c)

SpecErrors == InitErrors /\ [][NextReconnect]_vars

\* A port its user submits nothing to: every handler and timer of the
\* PortManager runs, the requests are the probes of its identifications.
NextUnattended ==
    \/ WriteCallback
    \/ Timeout
    \/ ZombieTimeout
    \/ Data
    \/ PortOpen
    \/ PortError
    \/ PortDisconnect
    \/ PortClose
    \/ ListFound
    \/ ListNotFound
    \/ TryLaterTimer
    \/ InitTimer

\* Such a port, configured with checkResponse. The callback of a write is
\* called and the timer of doTimeout expires.
InitSettle == Start(Env(FALSE, FALSE, FALSE, FALSE), TRUE)

SpecSettle ==
    /\ InitSettle
    /\ [][NextUnattended]_vars
    /\ WF_vars(WriteCallback)
    /\ WF_vars(Timeout)

\* The transport emits 'close' once it was disconnected or close() was
\* called on it.
CloseFollows ==
    /\ \E h \in 1..Len(ports) : ports[h].st \in {"disc", "closing"}
    /\ PortClose

\* An unattended port configured with checkResponse. The event loop runs
\* the timers and the callbacks of write and SerialPort.list, a transport
\* that is being opened emits 'open' or 'error', one that was disconnected
\* or closed emits 'close'.
SpecReady ==
    /\ InitSettle
    /\ [][NextUnattended]_vars
    /\ WF_vars(WriteCallback)
    /\ WF_vars(Timeout)
    /\ WF_vars(InitTimer)
    /\ WF_vars(TryLaterTimer)
    /\ WF_vars(ListFound \/ ListNotFound)
    /\ WF_vars(PortOpen \/ PortError)
    /\ WF_vars(CloseFollows)

\* The reconnection loop of a port whose events are recorded. The event
\* loop runs the timer of _tryLater once it is due, SerialPort.list calls
\* its callback, and a transport that is being opened emits 'open' or
\* 'error'.
SpecReconnect ==
    /\ InitEvents
    /\ [][NextReconnect]_vars
    /\ WF_vars(TryLaterTimer)
    /\ WF_vars(ListFound \/ ListNotFound)
    /\ WF_vars(PortOpen \/ PortError)

\* The PortManager of OwnPath as a refresh pass of a DeviceManager has
\* created it, configured without checkResponse, the listeners of the
\* DeviceManager attached.
InitManaged ==
    /\ StartPort(Env(FALSE, FALSE, FALSE, FALSE), FALSE)
    /\ dm = [DeviceManager0 EXCEPT
                 !.serialQManagers[OwnPath] =
                     [made |-> TRUE, deviceId |-> NoId, st |-> "init"]]

SpecManaged == InitManaged /\ [][Next]_vars

\* ------------------------------------------------------- DeviceManager
\* The DeviceManager at the beginning of a step.
D == [dm EXCEPT !.emitted = <<>>, !.settled = <<>>]

\* options.optionCreator as a filter of the ports listed.
optionCreator(p) == p # "R"

CommitDM(t) ==
    /\ dm' = drain(t)
    /\ UNCHANGED portVars

\* _updateList up to the call of SerialPort.list.
updateList(m) ==
    [m EXCEPT !.refreshing = TRUE, !.enumerating = @ + 1,
              !.refreshPromise = 1 - @]

\* refresh without its test of this.refreshing.
refresh_eager(m) == updateList(m)

\* refresh: the promise it returns is the refreshPromise of the result.
refresh(m) == IF m.refreshing THEN m ELSE updateList(m)

\* _getSerialQ starting an enumeration pass also for a device it has.
getSerialQ_refreshing(m, id) ==
    IF devicesGet(m, id) # NoPath
    THEN [refresh(m) EXCEPT !.micro = Append(@, [id |-> id, to |-> devicesGet(m, id)])]
    ELSE [refresh(m) EXCEPT !.requests = Append(@, [id |-> id, ph |-> "refresh"])]

\* _getSerialQ, with the reaction of addRequest attached to its promise.
getSerialQ(m, id) ==
    IF devicesGet(m, id) # NoPath
    THEN [m EXCEPT !.micro = Append(@, [id |-> id, to |-> devicesGet(m, id)])]
    ELSE [refresh(m) EXCEPT !.requests = Append(@, [id |-> id, ph |-> "refresh"])]

\* The callback of SerialPort.list constructing a PortManager for every
\* accepted port listed, whether the path has one or not.
listCallback_recreating(m, err, present) ==
    IF err
    THEN [m EXCEPT !.refreshing = FALSE, !.enumerating = @ - 1]
    ELSE [m EXCEPT !.refreshing = FALSE, !.enumerating = @ - 1,
                   !.serialQManagers =
                       [p \in Paths |->
                           IF p \in present /\ optionCreator(p)
                           THEN [made |-> TRUE, deviceId |-> NoId, st |-> "init"]
                           ELSE @[p]]]

\* The callback of SerialPort.list in _updateList, with the ports listed or
\* an error, and the reactions of the promise of the pass.
listCallback(m, err, present) ==
    LET m1 == [m EXCEPT !.refreshing = FALSE, !.enumerating = @ - 1]
        waits(r) == r.ph = "refresh"
        others(r) == r.ph # "refresh"
    IN IF err
       THEN [m1 EXCEPT !.requests = SelectSeq(@, others),
                       !.settled = @ \o
                           [i \in 1..Len(SelectSeq(m.requests, waits)) |->
                               [id |-> SelectSeq(m.requests, waits)[i].id,
                                to |-> NoPath, fut |-> "listError"]]]
       ELSE [m1 EXCEPT !.serialQManagers =
                           [p \in Paths |->
                               IF p \in present /\ optionCreator(p) /\ ~@[p].made
                               THEN [made |-> TRUE, deviceId |-> NoId, st |-> "init"]
                               ELSE @[p]],
                       !.requests = [i \in 1..Len(@) |->
                                        IF waits(@[i]) THEN [@[i] EXCEPT !.ph = "wait"]
                                        ELSE @[i]]]

\* The timer of _getSerialQ that was armed first expires.
deadline(m) ==
    LET r == m.requests[1] IN
    [m EXCEPT !.requests = Tail(@),
              !.settled = IF r.ph = "wait"
                          THEN Append(@, [id |-> r.id, to |-> NoPath,
                                          fut |-> "DeviceNotFound"])
                          ELSE @]

\* The PortManager of path p identifies the device behind it as id: the then
\* of _serialPortInit and the listener of ready, reinitialized or idchange.
\* A listener that throws makes the then of _serialPortInit throw, whose
\* catch sets InitFailed.
portIdentified(m, p, id) ==
    IF devicesThrows(id)
    THEN [m EXCEPT !.serialQManagers[p].deviceId = id,
                   !.serialQManagers[p].st = "failed"]
    ELSE deviceConnected([m EXCEPT !.serialQManagers[p].deviceId = id,
                                   !.serialQManagers[p].st = "ready"], id, p)

\* The PortManager of path p emits disconnect with its deviceId, and the
\* listener of disconnect, which emits nothing when its delete throws.
portDisconnect(m, p) ==
    onDisconnect([m EXCEPT !.serialQManagers[p].st = "disconnected"],
                 m.serialQManagers[p].deviceId)

\* A call of DeviceManager.addRequest(id, cmd, options).
DmRequest ==
    \E id \in Ids :
        /\ devicesGet(dm, id) = NoPath => Len(dm.requests) < MaxRequests
        /\ \E m \in {getSerialQ(D, id)} : CommitDM(m)

\* A call of DeviceManager.refresh() by the user.
Refresh == \E m \in {refresh(D)} : CommitDM(m)

\* SerialPort.list of _updateList calls back.
ListCallback ==
    /\ dm.enumerating > 0
    /\ \E err \in BOOLEAN :
           \E present \in (IF err THEN {{}} ELSE SUBSET Paths) :
               \E m \in {listCallback(D, err, present)} : CommitDM(m)

\* The timer of a call of _getSerialQ expires. The timers have the same
\* period and were armed in the order of requests.
Deadline ==
    /\ dm.requests # <<>>
    /\ dm.requests[1].ph # "refresh"
    /\ \E m \in {deadline(D)} : CommitDM(m)

\* The probe of a PortManager that is identifying is answered by device d.
Identified ==
    \E p \in Paths : \E d \in IdentitiesAt(p) :
        /\ dm.serialQManagers[p].st = "init"
        /\ \E m \in {portIdentified(D, p, d)} : CommitDM(m)

\* The transport of a PortManager reports disconnect.
Disconnected ==
    \E p \in Paths :
        /\ dm.serialQManagers[p].st \in {"init", "ready", "failed"}
        /\ \E m \in {portDisconnect(D, p)} : CommitDM(m)

\* The transport of a PortManager reports close.
Closed ==
    \E p \in Paths :
        /\ dm.serialQManagers[p].st \in {"init", "ready", "failed", "disconnected"}
        /\ \E m \in {[D EXCEPT !.serialQManagers[p].st = "closed"]} : CommitDM(m)

\* The timer of _scheduleInit of a PortManager expires.
InitRetry ==
    \E p \in Paths :
        /\ dm.serialQManagers[p].st = "failed"
        /\ \E m \in {[D EXCEPT !.serialQManagers[p].st = "init"]} : CommitDM(m)

\* The reconnection of a PortManager opens its port again.
Opened ==
    \E p \in Paths :
        /\ dm.serialQManagers[p].st = "closed"
        /\ \E m \in {[D EXCEPT !.serialQManagers[p].st = "init"]} : CommitDM(m)

NextDM ==
    \/ DmRequest
    \/ Refresh
    \/ ListCallback
    \/ Deadline
    \/ Identified
    \/ Disconnected
    \/ Closed
    \/ Opened
    \/ InitRetry

\* A DeviceManager and the PortManagers it creates, each seen through the
\* events the DeviceManager listens to.
InitDM == Start(Env(FALSE, FALSE, FALSE, FALSE), FALSE)

SpecDM == InitDM /\ [][NextDM]_vars

\* ------------------------------------------------------------- claims
\* What a call of addRequest made now by the user would return and do.
Submitted(probe) == addRequest(S, probe, FALSE)

\* The requests whose write is issued and not acknowledged.
InFlight == {r \in 1..Len(queue) : queue[r].st = "writing"}

\* C1: requests are served strictly in admission order: only the oldest
\* pending request has been written, every request behind it is still
\* waiting, and a request settles only from the head of the queue, that is
\* after every request admitted before it has settled.
C1_Fifo ==
    /\ \A r \in 2..Len(queue) : queue[r].st = "queued"
    /\ \A k \in 1..Len(settled) : settled[k].pos = 1

\* A request has resolved and the one admitted after it is being written.
C1_FifoReached ==
    /\ settled # <<>>
    /\ settled[1].fut = "resolved"
    /\ ~settled[1].probe
    /\ queue # <<>>
    /\ queue[1].st = "writing"
    /\ ~queue[1].probe

\* C2: in every step the requests pending afterwards and the futures the
\* step settled are together the requests pending before and the requests
\* the step admitted: no admitted request leaves the queue without its
\* future settling, and no future settles twice. Summed over a run, resolved
\* + rejected + pending = admitted.
C2_Conservation ==
    [][Len(queue') + Len(settled') = Len(queue) + admitted']_vars

\* A write has failed and the timer it left behind has expired, with
\* requests still pending.
C2_AfterWriteError ==
    /\ WriteErrors > 0
    /\ zombies = <<>>
    /\ queue # <<>>

C6_OneWrite == Cardinality(InFlight) <= 1

\* A write has failed, the handle is closing, and the write of the next
\* request is in flight.
C6_WriteAfterError ==
    /\ settled # <<>>
    /\ settled[1].fut = "write"
    /\ InFlight = {1}
    /\ cur = "last"
    /\ ports[Len(ports)].st = "closing"

\* C7 as stated: while the status is not Ready no command other than the
\* probe is written to the transport: a step that neither starts nor ends
\* in Ready does not take a request from the queue and write it to an open
\* transport, unless the request is the probe.
C7_WrittenOnlyWhenReady ==
    [][(/\ statusCode # 2
        /\ statusCode' # 2
        /\ settled' # <<>>
        /\ queue' # <<>>
        /\ queue'[1].st = "writing"
        /\ queue'[1].wh # 0) => queue'[1].probe]_vars

\* C8: a command whose identity snapshot differs from the current identity
\* when it reaches the head of the queue is rejected with "invalid id"
\* without being written, lowers queueLength by exactly one, and the request
\* behind it is started: no command is written under another identity than
\* the one it was admitted under, and the head of the queue never waits.
C8_StaleIdentity ==
    /\ \A k \in 1..Len(settled) :
           settled[k].fut = "invalid id" =>
               /\ ~settled[k].probe
               /\ ~settled[k].written
               /\ settled[k].qdec = 1
    /\ \A r \in 1..Len(queue) :
           (~queue[r].probe /\ queue[r].st # "queued") => queue[r].callId = deviceId
    /\ queue # <<>> => queue[1].st # "queued"

\* A command admitted under one identity was rejected with "invalid id"
\* after the identification found another.
C8_StaleRejected ==
    \E k \in 1..Len(settled) :
        /\ settled[k].fut = "invalid id"
        /\ settled[k].callId # NoId
        /\ settled[k].callId # deviceId
        /\ statusCode = 2

\* C9 as stated: once the device behind the port is replaced, the commands
\* admitted under the old identity and not yet written fail with "invalid
\* id": none of them is written to the new device.
C9_OldCommandsNotWritten ==
    \A r \in 1..Len(queue) :
        (/\ ~queue[r].probe
         /\ queue[r].moved
         /\ queue[r].st = "writing"
         /\ queue[r].wh # 0) => ports[queue[r].wh].dev = queue[r].callId

\* C10 as stated: a write error reported while the status is Ready rejects
\* that request with "write" and sets the status to Closing (6); no other
\* request fails by it: none is rejected in that step, and the request
\* started next is not written to a transport that is no longer open;
\* commands submitted meanwhile are rejected with NotReady; Closing is left
\* only for Closed (4), which re-enters the reconnection loop.
C10_WriteErrorCloses ==
    [][/\ (/\ ready
            /\ settled' # <<>>
            /\ settled'[1].fut = "write"
            /\ ~settled'[1].init) =>
               /\ statusCode' = 6
               /\ \A k \in 2..Len(settled') : settled'[k].fut # "write"
       /\ (/\ ready
            /\ settled' # <<>>
            /\ settled'[1].fut = "write"
            /\ queue' # <<>>
            /\ queue'[1].st = "writing") => queue'[1].wh # 0
       /\ statusCode = 6 => Submitted(FALSE).res = "NotReady"
       /\ statusCode = 6 => statusCode' \in {6, 4}
       /\ (statusCode = 6 /\ statusCode' = 4) => listing' = listing + 1]_vars

\* C11 as stated: when checkResponse rejects the buffer at the expiry of the
\* timer the request is rejected with ValidationFailed, and a request that
\* resolves (in a run without write errors) resolves with the bytes received
\* after its own write only: the buffer was empty when it was written.
C11_NextResponseOwnBytes ==
    [][/\ (queue # <<>> /\ queue[1].st = "timing" /\ settled' # <<>>) =>
              (settled'[1].fut = "validation" <=>
                   (check /\ ~checkResponse(buffer)))
       /\ (/\ WriteErrors = 0
            /\ settled' # <<>>
            /\ settled'[1].fut = "resolved") => settled'[1].stale = 0]_vars

\* C12 as stated: the receive buffer is empty between the completion of a
\* request and the write of the next: whenever a request is written the
\* buffer is empty.
C12_BufferEmptyAtWrite ==
    \A r \in 1..Len(queue) : queue[r].st = "writing" => queue[r].stale = 0

\* C13 as stated: the timer armed when the write is acknowledged is re-armed
\* at an expiry if data has arrived since it was last armed, and the request
\* completes otherwise: no request completes at an expiry in whose window
\* data arrived.
C13_CompletesOnlyWhenQuiet ==
    \A k \in 1..Len(settled) :
        settled[k].fut \in {"resolved", "validation"} => ~settled[k].grew

\* The handle this.port is open: not disconnected, closing, closed or absent,
\* and it has reported no error.
TransportOpen == writeHandle(S) # 0 /\ ~ports[Len(ports)].erred

\* C14 as stated: the status is Ready (2) if and only if a deviceId has been
\* established and the transport is open.
C14_ReadyIffIdentifiedAndOpen ==
    statusCode = 2 <=> (deviceId # NoId /\ TransportOpen)

IsIdentityEvent(ev) == ev.e \in {"ready", "reinitialized", "idchange"}

\* The identity events among the events es.
IdentityEvents(es) == SelectSeq(es, IsIdentityEvent)

\* C15: when the probe of an identification resolves with a response the
\* parser finds an id in, exactly one identity event is emitted, carrying
\* that id: ready if no deviceId was set, reinitialized if the deviceId was
\* that id, idchange if it was another; afterwards deviceId is that id and
\* the status is Ready (2).
C15_OneIdentityEvent ==
    [][(/\ settled' # <<>>
        /\ settled'[1].init
        /\ settled'[1].fut = "resolved"
        /\ getIdResponseParser(buffer) # NoId) =>
           /\ Len(IdentityEvents(emitted')) = 1
           /\ IdentityEvents(emitted')[1].id = getIdResponseParser(buffer)
           /\ IdentityEvents(emitted')[1].e =
                  (IF deviceId = NoId THEN "ready"
                   ELSE IF deviceId = getIdResponseParser(buffer)
                   THEN "reinitialized" ELSE "idchange")
           /\ deviceId' = getIdResponseParser(buffer)
           /\ statusCode' = 2]_vars

\* An identification has just found another id than the one set: idchange
\* was emitted, the deviceId is the new id and the status is Ready.
C15_IdChanged ==
    /\ settled # <<>>
    /\ settled[1].init
    /\ settled[1].fut = "resolved"
    /\ Len(IdentityEvents(emitted)) = 1
    /\ IdentityEvents(emitted)[1].e = "idchange"
    /\ IdentityEvents(emitted)[1].id = deviceId
    /\ statusCode = 2

\* C16: ready is emitted exactly when an identification succeeds while no
\* deviceId is set, and a deviceId once set is never unset, so ready is
\* emitted at most once; later identifications emit reinitialized when the
\* id found is the deviceId and idchange only when it is another one, so a
\* device that always answers with the same id yields one ready followed by
\* reinitialized events and no idchange.
C16_ReadyOnce ==
    [][/\ Len(IdentityEvents(emitted')) <= 1
       /\ \A i \in 1..Len(IdentityEvents(emitted')) :
              /\ IdentityEvents(emitted')[i].e = "ready" <=> deviceId = NoId
              /\ IdentityEvents(emitted')[i].e = "reinitialized" =>
                     IdentityEvents(emitted')[i].id = deviceId
              /\ IdentityEvents(emitted')[i].e = "idchange" =>
                     IdentityEvents(emitted')[i].id # deviceId
       /\ deviceId # NoId => deviceId' # NoId]_vars

\* A later identification of the same device, after a reconnection:
\* reinitialized was emitted with the deviceId.
C16_Reinitialized ==
    /\ Len(IdentityEvents(emitted)) = 1
    /\ IdentityEvents(emitted)[1].e = "reinitialized"
    /\ IdentityEvents(emitted)[1].id = deviceId
    /\ Len(ports) = 1
    /\ ports[1].dev = deviceId

IsStatusChanged(ev) == ev.e = "statusChanged"

\* The statusChanged events among the events es.
StatusEvents(es) == SelectSeq(es, IsStatusChanged)

\* C17: the statusChanged events of a step carry, in order, the codes the
\* status took in that step: each differs from the code before it (the first
\* from the status the step began with), and the last is the status the step
\* ends with; a step that emits none leaves the status as it was. So no two
\* consecutive statusChanged events carry the same code.
C17_EdgeTriggered ==
    [][/\ \A i \in 1..Len(StatusEvents(emitted')) :
              StatusEvents(emitted')[i].code #
                  (IF i = 1 THEN statusCode
                   ELSE StatusEvents(emitted')[i - 1].code)
       /\ statusCode' =
              (IF StatusEvents(emitted') = <<>> THEN statusCode
               ELSE StatusEvents(emitted')[Len(StatusEvents(emitted'))].code)]_vars

\* The init timer expired while the status was Initializing already: the
\* probe was admitted by a step that emitted no statusChanged.
C17_SameCodeSilent ==
    /\ statusCode = 1
    /\ admitted = 1
    /\ ~initTimeout
    /\ emitted = <<>>

\* The status code a listener reads when it receives the k-th of the events
\* es of a step that began in status before: the code of the last
\* statusChanged emitted ahead of it, before when there is none.
StatusAt(es, k, before) ==
    LET idx == {i \in 1..(k - 1) : IsStatusChanged(es[i])} IN
    IF idx = {} THEN before
    ELSE es[CHOOSE i \in idx : \A j \in idx : j <= i].code

\* The status code whose _updateStatus call the event belongs to.
EventCode(ev) ==
    CASE ev.e = "open" -> 0
      [] ev.e = "error" -> -1
      [] ev.e = "disconnect" -> 3
      [] ev.e = "close" -> 4
      [] OTHER -> 2

\* C18: every semantic event (open, ready, reinitialized, idchange,
\* disconnect, close, error) is delivered after the status it belongs to has
\* been set and announced: the status a listener reads at delivery is the
\* event's code, Ready for ready, reinitialized and idchange.
C18_StatusBeforeEvent ==
    [][\A k \in 1..Len(emitted') :
           ~IsStatusChanged(emitted'[k]) =>
               StatusAt(emitted', k, statusCode) = EventCode(emitted'[k])]_vars

\* What a call of DeviceManager.addRequest(id, ...) made now would do.
Requested(id) == drain(getSerialQ(D, id))

\* devices[id] is populated: _deviceConnected has set it and no disconnect
\* has deleted it since.
Populated(id) == id \in Devices /\ dm.devices[id] # NoPath

\* C19: addRequest for an id whose entry of devices is populated settles
\* with the outcome of addRequest of that PortManager, and nothing else
\* happens: no enumeration pass is started, no PortManager is created,
\* devices and the ever-seen set stay as they are, no call is left waiting
\* and no event is emitted.
C19_PopulatedDelegates ==
    \A id \in Ids :
        Populated(id) =>
            /\ Requested(id).settled =
                   <<[id |-> id, to |-> dm.devices[id],
                      fut |-> portAddRequest(dm.serialQManagers[dm.devices[id]])]>>
            /\ Requested(id).refreshing = dm.refreshing
            /\ Requested(id).enumerating = dm.enumerating
            /\ Requested(id).serialQManagers = dm.serialQManagers
            /\ Requested(id).devices = dm.devices
            /\ Requested(id).haveConnectedIds = dm.haveConnectedIds
            /\ Requested(id).requests = dm.requests
            /\ Requested(id).emitted = <<>>

\* A call for a device the DeviceManager has was handed to its PortManager
\* while no enumeration pass was in flight.
C19_Delegated ==
    /\ Len(dm.settled) = 1
    /\ dm.emitted = <<>>
    /\ Populated(dm.settled[1].id)
    /\ dm.settled[1].to = dm.devices[dm.settled[1].id]
    /\ dm.settled[1].fut = "admitted"
    /\ ~dm.refreshing

\* The calls among the requests rs that listen for id.
Listening(rs, id) ==
    {i \in 1..Len(rs) : rs[i].ph = "wait" /\ rs[i].id = id}

\* The entries of the outcomes os that say how.
Outcomes(os, how) == {i \in 1..Len(os) : os[i].fut = how}

\* An event that announces a device.
IsAnnouncement(ev) == ev.e \in {"new", "connect"}

\* C20, the call: addRequest for an id whose entry of devices is not
\* populated runs refresh() (an enumeration pass is in flight afterwards, the
\* one already in flight or a new one) and is left waiting for it, unsettled.
C20_CallRefreshes ==
    \A id \in Ids :
        ~Populated(id) =>
            /\ Requested(id).refreshing
            /\ Requested(id).enumerating = 1
            /\ Requested(id).settled = <<>>
            /\ Requested(id).requests =
                   Append(dm.requests, [id |-> id, ph |-> "refresh"])

\* C20, the wait: a call listens only once its enumeration pass has
\* completed; an announcement of its id hands every call listening for it to
\* devices[id]; the device-not-found error is the outcome of exactly the
\* calls whose timer expires while they still listen; and a call whose timer
\* has expired listens no longer.
C20_WaitStep ==
    /\ \A i \in 1..Len(dm'.requests) :
           (dm'.requests[i].ph = "wait" /\ (i > Len(dm.requests) \/ dm.requests[i].ph = "refresh"))
               => (dm.enumerating = 1 /\ dm'.enumerating = 0 /\ i <= Len(dm.requests))
    /\ \A k \in 1..Len(dm'.emitted) :
           IsAnnouncement(dm'.emitted[k]) =>
               /\ \A i \in Listening(dm.requests, dm'.emitted[k].id) :
                      dm'.requests[i] = [dm.requests[i] EXCEPT !.ph = "matched"]
               /\ Cardinality({j \in 1..Len(dm'.settled) :
                                  /\ dm'.settled[j].id = dm'.emitted[k].id
                                  /\ dm'.settled[j].to = dm'.devices[dm'.emitted[k].id]
                                  /\ dm'.settled[j].fut \in {"admitted", "NotReady"}})
                      = Cardinality(Listening(dm.requests, dm'.emitted[k].id))
    /\ Outcomes(dm'.settled, "DeviceNotFound") # {} <=>
           (dm.requests # <<>> /\ dm.requests[1].ph = "wait" /\ dm'.requests = Tail(dm.requests))
    /\ \A j \in Outcomes(dm'.settled, "DeviceNotFound") :
           dm'.settled = <<[id |-> dm.requests[1].id, to |-> NoPath, fut |-> "DeviceNotFound"]>>

\* C20: DeviceManager.addRequest for a device that is not registered runs
\* refresh(), waits after it for new or connect with the id, delegates on a
\* match and fails with the device-not-found error at the deadline.
C20_Discovery == []C20_CallRefreshes /\ [][C20_WaitStep]_vars


\* C21: while an enumeration pass is in flight, refresh() returns the promise
\* of that pass and calls SerialPort.list no further time, so at most one
\* pass is in flight; with no pass in flight, refresh() starts one, with a
\* promise of its own.
C21_RefreshCoalesces ==
    /\ dm.enumerating <= 1
    /\ dm.refreshing <=> dm.enumerating = 1
    /\ dm.refreshing =>
           /\ refresh(D).refreshPromise = dm.refreshPromise
           /\ refresh(D).enumerating = dm.enumerating
    /\ ~dm.refreshing =>
           /\ refresh(D).refreshPromise # dm.refreshPromise
           /\ refresh(D).enumerating = 1
           /\ refresh(D).refreshing

\* Two calls wait for the one enumeration pass in flight, the second pass of
\* the run.
C21_SharedPass ==
    /\ dm.enumerating = 1
    /\ dm.refreshPromise = 0
    /\ Len(dm.requests) = 2
    /\ dm.requests[1].ph = "refresh"
    /\ dm.requests[2].ph = "refresh"


\* C22, the pass: the callback of an enumeration leaves a path with a
\* PortManager exactly if it had one or the pass succeeded, listed the path
\* and the policy accepts it; a PortManager that existed is the one it was.
C22_PassConstructs ==
    dm.enumerating > 0 =>
        \A err \in BOOLEAN, present \in SUBSET Paths, p \in Paths :
            LET t == listCallback(D, err, present) IN
            /\ t.serialQManagers[p].made <=>
                   \/ dm.serialQManagers[p].made
                   \/ (~err /\ p \in present /\ optionCreator(p))
            /\ dm.serialQManagers[p].made =>
                   t.serialQManagers[p] = dm.serialQManagers[p]

\* C22, the run: a PortManager once made stays; a path the policy refuses
\* never has one, owns no device and so is the source of no event.
C22_Retained ==
    \A p \in Paths :
        /\ dm.serialQManagers[p].made => dm'.serialQManagers[p].made
        /\ ~optionCreator(p) =>
               /\ dm'.serialQManagers[p] = DeviceManager0.serialQManagers[p]
               /\ \A d \in Devices : dm'.devices[d] # p

\* C22: a refresh pass constructs a PortManager for a path if and only if
\* the policy accepts the port and the path has none yet; entries are never
\* replaced or removed, and a refused port gets no PortManager.
C22_OnePortManagerPerPath == []C22_PassConstructs /\ [][C22_Retained]_vars

\* After the second enumeration pass of the run: the PortManager of P has an
\* identity, that of Q is new, R has none.
C22_SecondPass ==
    /\ dm.refreshPromise = 0
    /\ dm.enumerating = 0
    /\ dm.serialQManagers["P"].st = "ready"
    /\ dm.serialQManagers["Q"] = [made |-> TRUE, deviceId |-> NoId, st |-> "init"]
    /\ ~dm.serialQManagers["R"].made


\* C23, the announcement: when the PortManager of path p finds identity id,
\* devices[id] becomes that PortManager, id is in the ever-seen set, and
\* exactly one event is emitted: connect{id} if id was in the set, new{id}
\* if it was not.
C23_Announced ==
    \A p \in Paths : \A id \in IdentitiesAt(p) :
        dm.serialQManagers[p].st = "init" =>
            LET t == portIdentified(D, p, id) IN
            /\ t.devices[id] = p
            /\ t.haveConnectedIds = dm.haveConnectedIds \cup {id}
            /\ t.emitted =
                   <<[e |-> IF id \in dm.haveConnectedIds THEN "connect" ELSE "new",
                      id |-> id]>>

\* C23, the run: new{id} is emitted only for an id that was not in the
\* ever-seen set and is in it afterwards, and the set loses no entry; so
\* new{id} is emitted at most once per id.
C23_NewOnce ==
    /\ dm.haveConnectedIds \subseteq dm'.haveConnectedIds
    /\ \A k \in 1..Len(dm'.emitted) :
           dm'.emitted[k].e = "new" =>
               /\ dm'.emitted[k].id \notin dm.haveConnectedIds
               /\ dm'.emitted[k].id \in dm'.haveConnectedIds

\* C23: every announcement of an identity registers it and emits connect or
\* new, new at most once per id.
C23_NewOrConnect == []C23_Announced /\ [][C23_NewOnce]_vars


\* The step identifies the device behind OwnPath as id: the probe resolves
\* with the id line of id.
Announces(id) ==
    /\ settled' # <<>>
    /\ settled'[1].init
    /\ settled'[1].fut = "resolved"
    /\ getIdResponseParser(buffer) = id

\* C24: when a registered device is unplugged, its entry of devices is
\* removed and disconnect{id} is emitted in that step; and when another
\* device is announced on the path while the first is still unplugged, the
\* entry of the first is absent and the entry of the other is the
\* PortManager of the path.
C24_Migration ==
    [][/\ \A a \in dm'.unplugged \ dm.unplugged :
              /\ dm'.devices[a] = NoPath
              /\ \E k \in 1..Len(dm'.emitted) :
                     dm'.emitted[k] = [e |-> "disconnect", id |-> a]
       /\ \A b \in Devices :
              Announces(b) =>
                  /\ dm'.devices[b] = OwnPath
                  /\ \A a \in dm'.unplugged \ {b} : dm'.devices[a] = NoPath]_vars


\* C25: every identity registered in devices is the identity of the
\* PortManager it maps to: devices[id].deviceId = id.
C25_DevicesOwnIdentity ==
    \A id \in Devices : dm.devices[id] = OwnPath => deviceId = id


\* getDeviceIds: the own enumerable keys of devices.
getDeviceIds(m) == {id \in Identities : m.devices[id] # NoPath}

\* C26: for every id getDeviceIds returns, the transport of the owning
\* PortManager is open: its status is none of Disconnected, Closed,
\* Closing, NotFound and Error.
C26_ListedAreConnected ==
    \A id \in getDeviceIds(dm) :
        dm.devices[id] = OwnPath => statusCode \notin {3, 4, 5, 6, -1}


\* The step settles the probe of an identification attempt without an id:
\* the probe was rejected (write error, validation), or it resolved with an
\* empty response or one the parser finds no id in.
ProbeFails ==
    /\ settled' # <<>>
    /\ \E k \in 1..Len(settled') :
           /\ settled'[k].init
           /\ \/ settled'[k].fut # "resolved"
              \/ buffer = <<>>
              \/ getIdResponseParser(buffer) = NoId

\* The step starts an identification attempt whose probe is refused at
\* admission.
ProbeRefused == (PortOpen \/ InitTimer) /\ admitted' = 0

\* The status is Identifying (1), or it was during the step that led here.
Identifying ==
    \/ statusCode = 1
    \/ \E k \in 1..Len(emitted) : emitted[k] = Ev("statusChanged", 1, NoId)

\* C27: whenever an identification attempt fails (empty response, the parser
\* finds no id, checkResponse rejects, write error, probe refused at
\* admission) the status becomes InitFailed (7) and one init timer is
\* pending; and, the timers firing, every InitFailed state is eventually
\* followed by Identifying.
C27_FailureRetries ==
    /\ [][(ProbeFails \/ ProbeRefused) => statusCode' = 7 /\ initTimeout']_vars
    /\ (statusCode = 7) ~> Identifying

\* An identification attempt has just failed on the probe's write error
\* while an init timer was already pending: the status is InitFailed and the
\* timer is pending.
C27_FailedAndScheduled ==
    /\ settled # <<>>
    /\ settled[1].init
    /\ settled[1].fut = "write"
    /\ statusCode = 7
    /\ initTimeout


\* C28: there is never more than one pending reconnect timer (_tryLater)
\* and never more than one reconnect attempt in progress (a SerialPort.list
\* of _hasPort awaited), whatever error, disconnect and close events the
\* transport reports; the init timer is one by construction (_scheduleInit
\* clears the pending timer before it sets one).
C28_SingleLoop == tryTimers <= 1 /\ listing <= 1


\* The requests being executed: written to the transport and not settled.
Executing == {r \in 1..Len(queue) : queue[r].st \in {"writing", "timing"}}

\* The timers of doTimeout outstanding: those of the requests whose write
\* was acknowledged, and those left by settled requests.
QuiescenceTimers ==
    Len(zombies) + Cardinality({r \in 1..Len(queue) : queue[r].st = "timing"})

\* C29: at most one quiescence timer is outstanding at any time, and no
\* timer of an already settled request is armed while a later request is
\* executing (so that it cannot clear that request's buffer or change the
\* queue count under it).
C29_OneQuiescenceTimer ==
    /\ QuiescenceTimers <= 1
    /\ zombies # <<>> => Executing = {}


\* The reconnection loop is running: an enumeration is awaited, a timer of
\* _tryLater is pending or a transport is being opened.
Looping ==
    \/ listing > 0
    \/ tryTimers > 0
    \/ \E h \in 1..Len(ports) : ports[h].st = "opening"

\* The step that led here was the handler of 'open': the status became
\* Open (0) and then, _serialPortInit called, Identifying (1).
JustOpened ==
    \E k \in 1..Len(emitted) :
        /\ emitted[k] = Ev("statusChanged", 0, NoId)
        /\ \E j \in (k + 1)..Len(emitted) : emitted[j] = Ev("statusChanged", 1, NoId)

C31_ReadyOnlyFromIdentifying ==
    [][\A k \in 1..Len(emitted') :
           (IsStatusChanged(emitted'[k]) /\ emitted'[k].code = 2) =>
               StatusAt(emitted', k, statusCode) = 1]_vars


\* The step is a call of _serialPortInit (from the handler of 'open' or
\* from the timer of _scheduleInit) whose probe is admitted.
ProbeEnqueued == (PortOpen \/ InitTimer) /\ admitted' = 1

\* C32: whenever the PortManager enters Identifying and enqueues the id
\* probe, no request admitted earlier is still pending: the queue is
\* otherwise empty and the probe is the next command written.
C32_ProbeIntoEmptyQueue ==
    [][ProbeEnqueued => queue = <<>>]_vars


\* The pending requests of queue q in order: what each is, whose identity it
\* was admitted under and how far its execution has got.
Pending(q) ==
    [i \in 1..Len(q) |-> <<q[i].probe, q[i].init, q[i].callId, q[i].st>>]

\* C33: the handlers of the transport's disconnect, close and error events
\* settle and remove no pending request and leave queueLength as it was,
\* and so does the handling of an identity change (the then of
\* _serialPortInit finding another id than deviceId).
C33_EventsKeepQueue ==
    /\ [](\A id \in Devices :
              LET t == initThen(S, <<id>>) IN
              (deviceId # NoId /\ deviceId # id) =>
                  /\ Pending(t.queue) = Pending(queue)
                  /\ t.queueLength = queueLength
                  /\ t.settled = <<>>)
    /\ [][(PortDisconnect \/ PortClose \/ PortError) =>
              /\ Pending(queue') = Pending(queue)
              /\ queueLength' = queueLength
              /\ settled' = <<>>]_vars

\* The transport has just reported disconnect, close or error while a
\* user's request written to it was pending: the request is pending still.
C33_PendingAcrossEvent ==
    /\ \E k \in 1..Len(emitted) : emitted[k].e \in {"disconnect", "close", "error"}
    /\ queue # <<>>
    /\ ~queue[1].probe
    /\ queue[1].st \in {"writing", "timing"}


\* C34: queueLength equals the number of admitted requests whose promise is
\* not settled (each admitted request lowers it exactly once, also one
\* failed by a write error whose timer keeps running), and it is never
\* negative.
C34_QueueLengthCounts == queueLength = Len(queue) /\ queueLength >= 0


\* The probes of identification attempts queued or in flight.
Probes == {r \in 1..Len(queue) : queue[r].init}

\* C35: identification attempts never overlap: at most one id probe is
\* queued or in flight at any time, also when a timer of _scheduleInit is
\* pending while the transport opens again and starts an identification.
C35_OneProbe == Cardinality(Probes) <= 1


\* C36: a request for an identity that is announced between the call of
\* addRequest and the discovery deadline, also while the refresh pass the
\* call has started is in flight, is delegated: no request fails with the
\* device-not-found timeout while devices[id] is populated.
C36_AnnouncedIsDelegated ==
    [][\A k \in 1..Len(dm'.settled) :
           dm'.settled[k].fut = "DeviceNotFound" =>
               devicesGet(dm, dm'.settled[k].id) = NoPath]_vars


\* C37: a disconnect reported by the PortManager of path p removes
\* devices[id] only if devices[id] is that PortManager: an identity that
\* the PortManager of another path has announced since stays registered
\* with that other PortManager.
C37_DisconnectOwnEntry ==
    [][\A p \in Paths : \A id \in Devices :
           (/\ dm.serialQManagers[p].st # "disconnected"
            /\ dm'.serialQManagers[p].st = "disconnected"
            /\ dm.devices[id] \notin {NoPath, p}) =>
               dm'.devices[id] = dm.devices[id]]_vars


\* C38: the DeviceManager emits disconnect only with a defined identity
\* that it has announced before with new or connect: a port that
\* disconnects before it was ever identified produces no disconnect event
\* of the DeviceManager.
C38_DisconnectOfAnnounced ==
    [][\A k \in 1..Len(dm'.emitted) :
           dm'.emitted[k].e = "disconnect" =>
               /\ dm'.emitted[k].id # NoId
               /\ dm'.emitted[k].id \in dm.haveConnectedIds]_vars


\* A written request waits for a callback that can only report an error,
\* in a run that has had its MaxWriteErrors write errors.
WriteBlocked ==
    \E r \in 1..Len(queue) :
        /\ queue[r].st = "writing"
        /\ queue[r].wh = 0 \/ ports[queue[r].wh].st # "open"
        /\ WriteErrors >= MaxWriteErrors

Episode ==
    \/ ListNotFound
    \/ PortError
    \/ PortDisconnect
    \/ PortClose /\ \A h \in 1..Len(ports) : ports[h].st \notin {"disc", "closing"}

\* The step is the timer of a probe expiring for the last time while the
\* device has not sent exactly its id line since the probe was written: it
\* has not answered, or with more than the parser finds an id in.
Unanswered ==
    /\ \E r \in 1..Len(queue) :
           /\ queue[r].st = "timing"
           /\ queue[r].init
           /\ queue[r].bufferSize = Len(buffer)
           /\ Len(buffer) - queue[r].stale # 1
    /\ Timeout

====
